---- MODULE Spec2Model ----
(***************************************************************************)
(* A model of src/src/main.js: calculateSimpleRevenue,                     *)
(* calculateBonusByProfit and analyzeSalesData.                            *)
(*                                                                         *)
(* JavaScript numbers are modelled in fixed point: a number is a record    *)
(* [nan, v] where v counts units of 1/Scale, and NaN is the record with    *)
(* nan = TRUE.  All inputs are whole numbers and discounts whole percents, *)
(* so every product, difference and percentage the code computes is exact  *)
(* in 1/Scale units.  Seller ids and skus are ordinary keys: none is the   *)
(* name of a property that a plain object inherits ("constructor").        *)
(* Sellers' names are copied into the statistics and the report unchanged  *)
(* and are left out.                                                       *)
(*                                                                         *)
(* analyzeSalesData is sequential; every forEach callback is one step.     *)
(* data.sellers, data.products and options are fixed in the initial state; *)
(* the records and line items of data.purchase_records are read once each, *)
(* in order, so they are drawn when the fold reads them.                   *)
(***************************************************************************)
EXTENDS Integers, Sequences, FiniteSets, TLC

\* ---------------------------------------------------------------- bounds
MaxSellers == 2
MaxRecords == 2
MaxItems == 2
MaxTotal == 5
MaxSold == 11

\* ------------------------------------------------------ program constants
TopLimit == 10

Scale == 100 * 100

\* ---------------------------------------------------------------- numbers
Num(n) == [nan |-> FALSE, v |-> n]

NaN == [nan |-> TRUE, v |-> 0]

Whole(n) == Num(n * Scale)

Zero == Whole(0)

Add(a, b) == IF a.nan \/ b.nan THEN NaN ELSE Num(a.v + b.v)

Sub(a, b) == IF a.nan \/ b.nan THEN NaN ELSE Num(a.v - b.v)

Mul(a, b) == IF a.nan \/ b.nan THEN NaN ELSE Num((a.v * b.v) \div Scale)

\* x / 100
Percent(a) == IF a.nan THEN NaN ELSE Num(a.v \div 100)

\* a number is truthy unless it is 0 or NaN
Truthy(a) == ~a.nan /\ a.v # 0

\* x || 0
OrZero(a) == IF Truthy(a) THEN a ELSE Zero

\* ------------------------------------------------------- raw input values
\* A field of an input object as the caller supplied it: a whole number, absent
\* (undefined), null, or a text that is not a number.
RawNum(n) == [t |-> "number", v |-> n]

Undefined == [t |-> "undefined", v |-> 0]

Null == [t |-> "null", v |-> 0]

Text == [t |-> "string", v |-> 0]

\* Number(x), and the ToNumber every arithmetic operator applies
ToNumber(x) ==
    CASE x.t = "number" -> Whole(x.v)
      [] x.t = "null" -> Zero
      [] OTHER -> NaN

\* x ?? d
Coalesce(x, d) == IF x.t \in {"undefined", "null"} THEN d ELSE x

\* a destructuring default: only undefined takes the default
Default(x, d) == IF x.t = "undefined" THEN d ELSE x

\* ------------------------------------------------------------------- skus
\* An sku is a property key of products_sold.  A key that is a canonical array
\* index ("7") is an integer key; any other ("SKU_7") is a string key.
IntKey(n) == [int |-> TRUE, n |-> n]

StrKey(n) == [int |-> FALSE, n |-> n]

\* ------------------------------------------------- calculateSimpleRevenue
calculateSimpleRevenue(purchase, product) ==
    LET discount == Default(purchase.discount, RawNum(0))
        sale_price == Default(purchase.sale_price, RawNum(0))
        quantity == Default(purchase.quantity, RawNum(0))
        discountFactor == Sub(Whole(1), Percent(ToNumber(discount)))
    IN  Mul(Mul(ToNumber(sale_price), ToNumber(quantity)), discountFactor)

\* ------------------------------------------------- calculateBonusByProfit
\* Math.max(0, x)
MathMax0(x) == IF x.nan THEN NaN ELSE IF x.v > 0 THEN x ELSE Zero

\* the literal 0.15, 0.10, 0.05
Hundredths(p) == Num(p * (Scale \div 100))

\* a variant that tests the last place before the first
LastPlaceFirstBonus(index, total, seller) ==
    LET profit == MathMax0(seller.profit)
    IN  IF index = total - 1 THEN Zero
        ELSE IF index = 0 THEN Mul(profit, Hundredths(15))
        ELSE IF index = 1 \/ index = 2 THEN Mul(profit, Hundredths(10))
        ELSE Mul(profit, Hundredths(5))

calculateBonusByProfit(index, total, seller) ==
    LET profit == MathMax0(seller.profit)
    IN  IF index = 0 THEN Mul(profit, Hundredths(15))
        ELSE IF index = 1 \/ index = 2 THEN Mul(profit, Hundredths(10))
        ELSE IF index = total - 1 THEN Zero
        ELSE Mul(profit, Hundredths(5))

\* ---------------------------------------------------------------- sorting
Positive(x) == ~x.nan /\ x.v > 0

\* the comparators (a, b) => b.profit - a.profit and (a, b) => b.quantity - a.quantity,
\* on the keys: a result > 0 puts b before a
Compare(a, b) == Sub(b, a)

RECURSIVE InsertUnstable(_, _, _, _)
\* a variant that also moves an index left past the indices of equal key
InsertUnstable(keys, out, x, j) ==
    IF j = 0 \/ Positive(Compare(keys[x], keys[out[j]]))
    THEN SubSeq(out, 1, j) \o <<x>> \o SubSeq(out, j + 1, Len(out))
    ELSE InsertUnstable(keys, out, x, j - 1)

RECURSIVE InsertSorted(_, _, _, _)
\* One insertion of Array.prototype.sort (stable since ES2019): index x moves left
\* past every index the comparator orders after it.
InsertSorted(keys, out, x, j) ==
    IF j = 0 \/ ~Positive(Compare(keys[out[j]], keys[x]))
    THEN SubSeq(out, 1, j) \o <<x>> \o SubSeq(out, j + 1, Len(out))
    ELSE InsertSorted(keys, out, x, j - 1)

RECURSIVE SortPerm(_, _)
\* the order (as indices of the original array) a stable sort gives the first n keys
SortPerm(keys, n) ==
    IF n = 0 THEN <<>>
    ELSE LET prev == SortPerm(keys, n - 1)
         IN  InsertSorted(keys, prev, n, Len(prev))

Reorder(seq, perm) == [i \in 1..Len(seq) |-> seq[perm[i]]]

Orders(n) ==
    {p \in [1..n -> 1..n] : \A i, j \in 1..n : i # j => p[i] # p[j]}

\* What arr.sort(comparator) can leave in arr.  With numeric keys the comparator is
\* consistent and the stable order is the result; with a NaN key it is not, and the
\* order is implementation-defined (ECMA-262, Array.prototype.sort).
SortOutcomes(seq, keys) ==
    IF \E i \in 1..Len(keys) : keys[i].nan
    THEN {Reorder(seq, p) : p \in Orders(Len(seq))}
    ELSE {Reorder(seq, SortPerm(keys, Len(keys)))}

\* ----------------------------------------------------------- products_sold
\* products_sold is a plain object: its entries in the order the keys were created.
RECURSIVE KeyPos(_, _, _)
KeyPos(sold, sku, k) ==
    IF k > Len(sold) THEN 0
    ELSE IF sold[k].sku = sku THEN k
    ELSE KeyPos(sold, sku, k + 1)

\* if (!products_sold[sku]) products_sold[sku] = 0;  products_sold[sku] += qty
ProductsSoldAdd(sold, sku, qty) ==
    LET k == KeyPos(sold, sku, 1)
        base == IF k = 0 THEN Append(sold, [sku |-> sku, quantity |-> Zero])
                ELSE IF ~Truthy(sold[k].quantity)
                     THEN [sold EXCEPT ![k].quantity = Zero]
                     ELSE sold
        at == IF k = 0 THEN Len(base) ELSE k
    IN  [base EXCEPT ![at].quantity = Add(@, qty)]

RECURSIVE SelectKeys(_, _, _)
SelectKeys(sold, int, k) ==
    IF k > Len(sold) THEN <<>>
    ELSE (IF sold[k].sku.int = int THEN <<sold[k]>> ELSE <<>>)
         \o SelectKeys(sold, int, k + 1)

RECURSIVE AscendingByKey(_)
AscendingByKey(entries) ==
    IF entries = <<>> THEN <<>>
    ELSE LET m == CHOOSE i \in 1..Len(entries) :
                      \A j \in 1..Len(entries) : entries[i].sku.n <= entries[j].sku.n
         IN  <<entries[m]>> \o
             AscendingByKey(SubSeq(entries, 1, m - 1) \o SubSeq(entries, m + 1, Len(entries)))

\* a variant that lists every key in creation order, as a Map would
EntriesInCreationOrder(sold) == sold

\* Object.entries(products_sold): integer keys in ascending order, then the string
\* keys in creation order
ObjectEntries(sold) ==
    AscendingByKey(SelectKeys(sold, TRUE, 1)) \o SelectKeys(sold, FALSE, 1)

Quantities(entries) == [i \in 1..Len(entries) |-> entries[i].quantity]

Slice(seq, n) == SubSeq(seq, 1, IF Len(seq) < n THEN Len(seq) ELSE n)

\* Object.entries(...).map(...).sort((a, b) => b.quantity - a.quantity).slice(0, 10)
TopProductsOutcomes(sold) ==
    LET entries == ObjectEntries(sold)
    IN  {Slice(sorted, TopLimit) : sorted \in SortOutcomes(entries, Quantities(entries))}

\* ------------------------------------------------------------------ inputs
SellerIds == 1..MaxSellers

\* an id no seller of the model carries
StrangerId == 0

\* the skus of the products, in catalogue order
Catalogue == <<StrKey(1), IntKey(7)>>

ProductSkus == {Catalogue[i] : i \in 1..Len(Catalogue)}

\* an sku no product of the model carries
StraySku == StrKey(9)

\* data.sellers when it is an array: sellers with distinct ids.  The code only
\* compares ids for equality, so one naming of the sellers of each length stands
\* for all of them; ids run against the positions.
SellerLists == {[i \in 1..m |-> [id |-> m + 1 - i]] : m \in 0..MaxSellers}

\* data.products when it is an array: a prefix of the catalogue, each product at
\* one of the purchase prices given for its place
ProductLists(prices) ==
    UNION {{[i \in 1..m |-> [sku |-> Catalogue[i], purchase_price |-> f[i]]] :
              f \in {g \in [1..m -> UNION {prices[i] : i \in 1..m}] :
                       \A i \in 1..m : g[i] \in prices[i]}} :
           m \in 0..Len(Catalogue)}

Collections(lists) ==
    {[kind |-> "array", list |-> l] : l \in lists}
    \cup {[kind |-> k, list |-> <<>>] : k \in {"missing", "notArray"}}

\* data: absent, or an object with the three collections.  Of purchase_records only
\* the shape is fixed here; its records are drawn as the fold reads them.
DataInputs(prices) ==
    {[present |-> FALSE, sellers |-> [kind |-> "missing", list |-> <<>>],
      products |-> [kind |-> "missing", list |-> <<>>], purchase_records |-> "missing"]}
    \cup [present : {TRUE}, sellers : Collections(SellerLists),
          products : Collections(ProductLists(prices)),
          purchase_records : {"missing", "notArray", "empty", "array"}]

StrategyKinds == {"undefined", "notFunction", "function"}

\* options: null/undefined, a non-object, or an object with the two strategy fields
OptionsInputs ==
    {[kind |-> k, calculateRevenue |-> "undefined", calculateBonus |-> "undefined"] :
        k \in {"missing", "notObject"}}
    \cup [kind : {"object"}, calculateRevenue : StrategyKinds, calculateBonus : StrategyKinds]

Prices == <<{RawNum(1)}, {RawNum(4)}>>

RawPrices == <<{RawNum(1), Undefined}, {Null, Text}>>

Records ==
    [seller_id : SellerIds \cup {StrangerId}, total_amount : {RawNum(0), RawNum(7)}]

RawRecords ==
    [seller_id : SellerIds \cup {StrangerId},
     total_amount : {RawNum(7), Undefined, Null, Text}]

Items ==
    [sku : ProductSkus \cup {StraySku}, quantity : {RawNum(1), RawNum(2)},
     sale_price : {RawNum(3)}, discount : {RawNum(50)}]

RawItems ==
    [sku : ProductSkus \cup {StraySku}, quantity : {RawNum(1), Undefined, Text},
     sale_price : {RawNum(3), Undefined}, discount : {RawNum(0), Text}]

NoRecord == [seller_id |-> StrangerId, total_amount |-> Undefined]

NoItem == [sku |-> StraySku, quantity |-> Undefined, sale_price |-> Undefined,
           discount |-> Undefined]

\* ------------------------------------------------------------------- state
VARIABLES
    data,          \* the data argument
    options,       \* the options argument
    pc,            \* where analyzeSalesData is
    error,         \* the error thrown, "" while none
    sellerStats,   \* the sellerStats array
    r,             \* purchase records read so far
    record,        \* the record of the running (or last) outer callback
    cur,           \* position in sellerStats of that record's seller, 0 if none
    itemsRead,     \* line items read so far, over all records
    item,          \* the item of the running (or last) inner callback
    revenueCalls,  \* invocations of options.calculateRevenue
    bonusCalls,    \* invocations of options.calculateBonus
    idx,           \* sellers the ranking forEach has visited
    report,        \* the value returned
    paid,          \* history: total_amount summed over the records read whose
                   \*   seller_id is the id of a seller of data.sellers
    owed,          \* history: per seller id, revenue minus cost summed over the
                   \*   items read in that seller's records whose sku is a product's
    units,         \* history: per seller id and sku, the quantity of those items
    referenced,    \* history: the seller_id of every record read
    call,          \* the arguments of a strategy or helper applied on its own
    result         \* what it returned

vars == <<data, options, pc, error, sellerStats, r, record, cur, itemsRead, item,
          revenueCalls, bonusCalls, idx, report, paid, owed, units, referenced,
          call, result>>

history == <<paid, owed, units, referenced>>

\* the variables of analyzeSalesData
engine == <<data, options, pc, error, sellerStats, r, record, cur, itemsRead, item,
            revenueCalls, bonusCalls, idx, report, paid, owed, units, referenced>>

NoCall == [fn |-> ""]

NoResult == [returned |-> FALSE]

NoReport == [returned |-> FALSE, entries |-> <<>>]

Fresh ==
    /\ pc = "start"
    /\ error = ""
    /\ sellerStats = <<>>
    /\ r = 0
    /\ record = NoRecord
    /\ cur = 0
    /\ itemsRead = 0
    /\ item = NoItem
    /\ revenueCalls = 0
    /\ bonusCalls = 0
    /\ idx = 0
    /\ report = NoReport
    /\ paid = Zero
    /\ owed = [id \in SellerIds \cup {StrangerId} |-> Zero]
    /\ units = [id \in SellerIds \cup {StrangerId} |->
                  [sku \in ProductSkus \cup {StraySku} |-> Zero]]
    /\ referenced = {}

InitWith(prices) ==
    /\ data \in DataInputs(prices)
    /\ options \in OptionsInputs
    /\ Fresh
    /\ call = NoCall
    /\ result = NoResult

Init == InitWith(Prices)

InitRaw == InitWith(RawPrices)

\* ------------------------------------------------- analyzeSalesData: checks
IsArray(c) == c.kind = "array"

\* a variant that does not reject empty collections
BadDataArraysOnly ==
    \/ ~data.present
    \/ ~IsArray(data.sellers) \/ ~IsArray(data.products)
    \/ data.purchase_records \notin {"empty", "array"}

\* lines 55-58
BadData ==
    \/ ~data.present
    \/ ~IsArray(data.sellers) \/ ~IsArray(data.products)
    \/ data.purchase_records \notin {"empty", "array"}
    \/ Len(data.sellers.list) = 0 \/ Len(data.products.list) = 0
    \/ data.purchase_records = "empty"

\* lines 64-66
BadOptions == options.kind # "object"

\* lines 74-76
UndefinedStrategy ==
    options.calculateRevenue = "undefined" \/ options.calculateBonus = "undefined"

\* lines 82-84
NotFunctionStrategy ==
    options.calculateRevenue # "function" \/ options.calculateBonus # "function"

\* the error the checks of lines 55-86 throw, "" when they all pass
Rejection ==
    IF BadData THEN "Invalid input data"
    ELSE IF BadOptions THEN "Options must be an object"
    ELSE IF UndefinedStrategy THEN "Option variables are undefined"
    ELSE IF NotFunctionStrategy THEN "Option variables must be functions"
    ELSE ""

Validate ==
    /\ pc = "start"
    /\ error' = Rejection
    /\ pc' = IF Rejection = "" THEN "index" ELSE "error"
    /\ UNCHANGED <<data, options, sellerStats, r, record, cur, itemsRead, item,
                   revenueCalls, bonusCalls, idx, report, history>>
    /\ UNCHANGED <<call, result>>

\* ---------------------------------------------- analyzeSalesData: indexing
\* lines 90-97.  bonus and top_products are set by the ranking pass and unset
\* (here 0 and empty) until then.
NewStat(seller) ==
    [id |-> seller.id, revenue |-> Zero, profit |-> Zero, sales_count |-> Zero,
     products_sold |-> <<>>, bonus |-> Zero, top_products |-> <<>>]

BuildIndex ==
    /\ pc = "index"
    /\ sellerStats' = [i \in 1..Len(data.sellers.list) |-> NewStat(data.sellers.list[i])]
    /\ pc' = "fold"
    /\ UNCHANGED <<data, options, error, r, record, cur, itemsRead, item,
                   revenueCalls, bonusCalls, idx, report, history>>
    /\ UNCHANGED <<call, result>>

Greatest(S) == CHOOSE x \in S : \A y \in S : y <= x

\* a variant whose miss falls back to the first seller
sellerIndexOrFirst(stats, id) ==
    LET at == {i \in 1..Len(stats) : stats[i].id = id}
    IN  IF at = {} THEN 1 ELSE Greatest(at)

\* sellerIndex[id]: the reduce of lines 101-104 keeps the last entry of an id;
\* 0 stands for undefined
sellerIndex(stats, id) ==
    LET at == {i \in 1..Len(stats) : stats[i].id = id}
    IN  IF at = {} THEN 0 ELSE Greatest(at)

\* a variant whose miss falls back to the first product
productIndexOrFirst(products, sku) ==
    LET at == {i \in 1..Len(products) : products[i].sku = sku}
    IN  IF at = {} THEN 1 ELSE Greatest(at)

\* productIndex[sku]: Object.fromEntries keeps the last entry of a key
productIndex(products, sku) ==
    LET at == {i \in 1..Len(products) : products[i].sku = sku}
    IN  IF at = {} THEN 0 ELSE Greatest(at)

\* ------------------------------------------------- analyzeSalesData: fold
IsSeller(id) == \E i \in 1..Len(data.sellers.list) : data.sellers.list[i].id = id

IsProduct(sku) == \E i \in 1..Len(data.products.list) : data.products.list[i].sku = sku

ProductOf(sku) ==
    data.products.list[CHOOSE i \in 1..Len(data.products.list) :
                           data.products.list[i].sku = sku]

\* a variant that assigns the revenue instead of adding to it
CountSaleAssign(stat, rec) ==
    [stat EXCEPT !.sales_count = Add(@, Whole(1)),
                 !.revenue = ToNumber(Coalesce(rec.total_amount, RawNum(0)))]

\* lines 116-119
CountSale(stat, rec) ==
    [stat EXCEPT !.sales_count = Add(@, Whole(1)),
                 !.revenue = Add(@, ToNumber(Coalesce(rec.total_amount, RawNum(0))))]

\* one call of the outer callback, up to its items loop (lines 113-119)
FoldRecord(rec) ==
    /\ pc = "fold"
    /\ r < MaxRecords
    /\ r' = r + 1
    /\ record' = rec
    /\ LET seller == sellerIndex(sellerStats, rec.seller_id)
       IN  /\ cur' = seller
           /\ IF seller = 0
              THEN pc' = "fold" /\ sellerStats' = sellerStats
              ELSE /\ pc' = "items"
                   /\ sellerStats' = [sellerStats EXCEPT ![seller] = CountSale(@, rec)]
    /\ referenced' = referenced \cup {rec.seller_id}
    /\ paid' = IF IsSeller(rec.seller_id) THEN Add(paid, ToNumber(rec.total_amount))
               ELSE paid
    /\ UNCHANGED <<data, options, error, itemsRead, item, revenueCalls, bonusCalls,
                   idx, report, owed, units>>
    /\ UNCHANGED <<call, result>>

\* a variant whose cost is the purchase price of one unit
SellItemUnitCost(stat, it, product) ==
    LET qty == ToNumber(Coalesce(it.quantity, RawNum(0)))
        cost == ToNumber(product.purchase_price)
        revenue == OrZero(calculateSimpleRevenue(it, product))
        profit == Sub(revenue, cost)
    IN  [stat EXCEPT !.profit = Add(@, profit),
                     !.products_sold = ProductsSoldAdd(@, it.sku, qty)]

\* lines 127-144
SellItem(stat, it, product) ==
    LET qty == ToNumber(Coalesce(it.quantity, RawNum(0)))
        cost == Mul(ToNumber(product.purchase_price), qty)
        revenue == OrZero(calculateSimpleRevenue(it, product))
        profit == Sub(revenue, cost)
    IN  [stat EXCEPT !.profit = Add(@, profit),
                     !.products_sold = ProductsSoldAdd(@, it.sku, qty)]

\* one call of the inner callback (lines 123-144)
FoldItem(it) ==
    /\ pc = "items"
    /\ itemsRead < MaxItems
    /\ itemsRead' = itemsRead + 1
    /\ item' = it
    /\ LET product == productIndex(data.products.list, it.sku)
       IN  IF product = 0
           THEN UNCHANGED <<sellerStats, revenueCalls>>
           ELSE /\ sellerStats' = [sellerStats EXCEPT
                                     ![cur] = SellItem(@, it, data.products.list[product])]
                /\ revenueCalls' = revenueCalls + 1
    /\ IF IsSeller(record.seller_id) /\ IsProduct(it.sku)
       THEN /\ owed' = [owed EXCEPT ![record.seller_id] =
                          Add(@, Sub(calculateSimpleRevenue(it, ProductOf(it.sku)),
                                     Mul(ToNumber(ProductOf(it.sku).purchase_price),
                                         ToNumber(it.quantity))))]
            /\ units' = [units EXCEPT ![record.seller_id][it.sku] =
                           Add(@, ToNumber(it.quantity))]
       ELSE UNCHANGED <<owed, units>>
    /\ UNCHANGED <<data, options, pc, error, r, record, cur, bonusCalls, idx, report,
                   paid, referenced>>
    /\ UNCHANGED <<call, result>>

\* the items of the record are exhausted: the outer callback returns
EndRecord ==
    /\ pc = "items"
    /\ pc' = "fold"
    /\ record' = NoRecord
    /\ item' = NoItem
    /\ cur' = 0
    /\ UNCHANGED <<data, options, error, sellerStats, r, itemsRead,
                   revenueCalls, bonusCalls, idx, report, history>>
    /\ UNCHANGED <<call, result>>

\* purchase_records (not empty: line 57) is exhausted
EndFold ==
    /\ pc = "fold"
    /\ r >= 1
    /\ pc' = "sort"
    /\ record' = NoRecord
    /\ UNCHANGED <<data, options, error, sellerStats, r, cur, itemsRead, item,
                   revenueCalls, bonusCalls, idx, report, history>>
    /\ UNCHANGED <<call, result>>

\* ---------------------------------------------- analyzeSalesData: ranking
Profits(stats) == [i \in 1..Len(stats) |-> stats[i].profit]

\* line 149
SortSellers ==
    /\ pc = "sort"
    /\ sellerStats' \in SortOutcomes(sellerStats, Profits(sellerStats))
    /\ pc' = "rank"
    /\ UNCHANGED <<data, options, error, r, record, cur, itemsRead, item,
                   revenueCalls, bonusCalls, idx, report, history>>
    /\ UNCHANGED <<call, result>>

\* one call of the callback of lines 152-161, for the seller at index idx
RankSeller ==
    /\ pc = "rank"
    /\ idx < Len(sellerStats)
    /\ \E top \in TopProductsOutcomes(sellerStats[idx + 1].products_sold) :
          sellerStats' = [sellerStats EXCEPT
              ![idx + 1].bonus =
                  calculateBonusByProfit(idx, Len(sellerStats), sellerStats[idx + 1]),
              ![idx + 1].top_products = top]
    /\ bonusCalls' = bonusCalls + 1
    /\ idx' = idx + 1
    /\ UNCHANGED <<data, options, pc, error, r, record, cur, itemsRead, item,
                   revenueCalls, report, history>>
    /\ UNCHANGED <<call, result>>

\* +Number(n ?? 0).toFixed(2): to the nearest hundredth, halves away from zero
to2(x) ==
    LET unit == Scale \div 100
        half == unit \div 2
    IN  IF x.nan THEN NaN
        ELSE IF x.v >= 0 THEN Num(((x.v + half) \div unit) * unit)
        ELSE Num(-(((-x.v + half) \div unit) * unit))

\* String(seller.id)
String(id) == <<"string", id>>

\* lines 168-176
ReportEntry(seller) ==
    [seller_id |-> String(seller.id),
     revenue |-> to2(seller.revenue),
     profit |-> to2(seller.profit),
     sales_count |-> seller.sales_count,
     top_products |-> seller.top_products,
     bonus |-> to2(seller.bonus)]

Return ==
    /\ pc = "rank"
    /\ idx = Len(sellerStats)
    /\ report' = [returned |-> TRUE,
                  entries |-> [i \in 1..Len(sellerStats) |-> ReportEntry(sellerStats[i])]]
    /\ pc' = "done"
    /\ UNCHANGED <<data, options, error, sellerStats, r, record, cur, itemsRead, item,
                   revenueCalls, bonusCalls, idx, history>>
    /\ UNCHANGED <<call, result>>

Next ==
    \/ Validate
    \/ BuildIndex
    \/ \E rec \in Records : FoldRecord(rec)
    \/ \E it \in Items : FoldItem(it)
    \/ EndRecord
    \/ EndFold
    \/ SortSellers
    \/ RankSeller
    \/ Return

Spec == Init /\ [][Next]_vars

\* the same program on inputs whose numeric fields may be absent, null or text
NextRaw ==
    \/ Validate
    \/ BuildIndex
    \/ \E rec \in RawRecords : FoldRecord(rec)
    \/ \E it \in RawItems : FoldItem(it)
    \/ EndRecord
    \/ EndFold
    \/ SortSellers
    \/ RankSeller
    \/ Return

SpecRaw == InitRaw /\ [][NextRaw]_vars

\* --------------------------------------- calculateBonusByProfit on its own
\* analyzeSalesData not running
Idle ==
    /\ data = [present |-> FALSE, sellers |-> [kind |-> "missing", list |-> <<>>],
               products |-> [kind |-> "missing", list |-> <<>>],
               purchase_records |-> "missing"]
    /\ options = [kind |-> "missing", calculateRevenue |-> "undefined",
                  calculateBonus |-> "undefined"]
    /\ Fresh

\* profits of a ranked seller, in whole units
BonusProfits == {-30, -1, 0, 1, 20, 100}

BonusCalls ==
    {c \in [fn : {"calculateBonusByProfit"}, index : 0..(MaxTotal - 1), total : 1..MaxTotal,
            seller : {[profit |-> Whole(p)] : p \in BonusProfits}] :
       c.index < c.total}

InitBonus ==
    /\ Idle
    /\ call \in BonusCalls
    /\ result = NoResult

ApplyBonus ==
    /\ call.fn = "calculateBonusByProfit"
    /\ ~result.returned
    /\ result' = [returned |-> TRUE,
                  value |-> calculateBonusByProfit(call.index, call.total, call.seller)]
    /\ UNCHANGED <<engine, call>>

NextBonus == ApplyBonus

SpecBonus == InitBonus /\ [][NextBonus]_vars

\* ------------------------------------------- the top products on their own
\* The skus a seller sold, in the order of their first sale.  The first FreeKeys
\* of them may be integer keys, issued in descending order; the rest are string
\* keys.
FreeKeys == 3

SoldSku(i, int) == IF int THEN IntKey(100 - i) ELSE StrKey(i)

InitTop ==
    /\ Idle
    /\ call = [fn |-> "top_products", products_sold |-> <<>>]
    /\ result = NoResult

\* the first sale of one more sku (lines 140-144 on a seller's products_sold)
SellNew(qty, int) ==
    /\ call.fn = "top_products"
    /\ ~result.returned
    /\ Len(call.products_sold) < MaxSold
    /\ int => Len(call.products_sold) < FreeKeys
    /\ call' = [call EXCEPT !.products_sold =
                  ProductsSoldAdd(@, SoldSku(Len(@) + 1, int), Whole(qty))]
    /\ UNCHANGED <<engine, result>>

\* lines 156-160 on that products_sold
ApplyTop ==
    /\ call.fn = "top_products"
    /\ ~result.returned
    /\ \E top \in TopProductsOutcomes(call.products_sold) :
          result' = [returned |-> TRUE, value |-> top]
    /\ UNCHANGED <<engine, call>>

NextTop ==
    \/ \E qty \in {1, 2}, int \in BOOLEAN : SellNew(qty, int)
    \/ ApplyTop

SpecTop == InitTop /\ [][NextTop]_vars

\* ================================================================= claims

\* ---- calculateBonusByProfit (SpecBonus)
Max0(x) == IF x > 0 THEN x ELSE 0

\* C1: the seller at the last index (index = total - 1, index # 0) gets bonus 0 for
\* every total >= 2, also when the last index is 1 or 2.
C1_LastPlaceGetsZero ==
    (result.returned /\ call.total >= 2 /\ call.index = call.total - 1)
        => result.value = Zero

\* C9: the seller at index 0 gets 15% of max(profit, 0) for every total >= 1, so a
\* lone seller (total = 1) gets the top bonus and not the last-place 0; a seller
\* with negative profit gets bonus 0 at every index, and no bonus is negative.
C9_FirstPlaceFirst ==
    result.returned =>
        /\ ~result.value.nan
        /\ call.index = 0 => result.value.v * 100 = 15 * Max0(call.seller.profit.v)
        /\ call.seller.profit.v < 0 => result.value = Zero
        /\ result.value.v >= 0

\* a lone seller with a profit has been paid the top bonus
C9_Witness ==
    /\ result.returned
    /\ call.total = 1
    /\ call.index = 0
    /\ call.seller.profit.v > 0
    /\ result.value.v > 0

\* ---- top_products (SpecTop)
\* where sku was created in products_sold, 0 if it never was
Created(sold, sku) ==
    IF \E k \in 1..Len(sold) : sold[k].sku = sku
    THEN CHOOSE k \in 1..Len(sold) : sold[k].sku = sku
    ELSE 0

InTop(top, sku) == \E i \in 1..Len(top) : top[i].sku = sku

\* at most 10 entries, by quantity descending, each an sku the seller sold with its
\* total quantity and listed once, and nothing left out outsells an entry
TopIsTheBest(sold, top) ==
    /\ Len(top) <= 10
    /\ \A i, j \in 1..Len(top) : i < j => top[i].quantity.v >= top[j].quantity.v
    /\ \A i \in 1..Len(top) : \E k \in 1..Len(sold) : sold[k] = top[i]
    /\ \A i, j \in 1..Len(top) : i # j => top[i].sku # top[j].sku
    /\ Len(sold) > 10 =>
          \A k \in 1..Len(sold) : ~InTop(top, sold[k].sku) =>
              \A i \in 1..Len(top) : sold[k].quantity.v <= top[i].quantity.v

\* skus of equal quantity are listed in the order of their first sale
TiesInSaleOrder(sold, top) ==
    \A i, j \in 1..Len(top) :
        (i < j /\ top[i].quantity = top[j].quantity)
            => Created(sold, top[i].sku) < Created(sold, top[j].sku)

\* the order of an object's own keys: integer keys ascending, then string keys in
\* the order of creation
KeyBefore(sold, a, b) ==
    \/ a.int /\ ~b.int
    \/ a.int /\ b.int /\ a.n < b.n
    \/ ~a.int /\ ~b.int /\ Created(sold, a) < Created(sold, b)

TiesInKeyOrder(sold, top) ==
    \A i, j \in 1..Len(top) :
        (i < j /\ top[i].quantity = top[j].quantity)
            => KeyBefore(sold, top[i].sku, top[j].sku)

SellerPos(id) ==
    CHOOSE i \in 1..Len(data.sellers.list) : data.sellers.list[i].id = id

RECURSIVE SumRevenue(_, _)
SumRevenue(stats, k) ==
    IF k > Len(stats) THEN Zero ELSE Add(stats[k].revenue, SumRevenue(stats, k + 1))

\* C2 as stated: revenue and profit of every seller are never NaN, during the fold
\* and in the report, whatever numeric fields of the input are absent or not
\* numbers.
C2_NeverNaN ==
    /\ \A i \in 1..Len(sellerStats) :
          ~sellerStats[i].revenue.nan /\ ~sellerStats[i].profit.nan
    /\ \A i \in 1..Len(report.entries) :
          ~report.entries[i].revenue.nan /\ ~report.entries[i].profit.nan

\* C3: the report has one entry per seller of data.sellers, each seller in exactly
\* one entry; a seller no purchase record references has revenue 0, profit 0,
\* sales_count 0 and no top products.
C3_EverySellerOnce ==
    report.returned =>
        /\ Len(report.entries) = Len(data.sellers.list)
        /\ \A s \in 1..Len(data.sellers.list) :
              LET id == data.sellers.list[s].id
                  at == {i \in 1..Len(report.entries) :
                           report.entries[i].seller_id = String(id)}
              IN  /\ Cardinality(at) = 1
                  /\ id \notin referenced =>
                        \A i \in at :
                            /\ report.entries[i].revenue = Zero
                            /\ report.entries[i].profit = Zero
                            /\ report.entries[i].sales_count = Zero
                            /\ report.entries[i].top_products = <<>>

\* a report of two sellers, one with sales and one no record referenced, made
\* from records of which one named a stranger
C3_Witness ==
    /\ report.returned
    /\ Len(data.sellers.list) = 2
    /\ StrangerId \in referenced
    /\ \E a, b \in SellerIds : a \in referenced /\ b \notin referenced

\* C4: at every point of the fold the revenue accumulated over all sellers is the
\* sum of total_amount over the records read whose seller_id is a seller's; records
\* of unknown sellers add nothing and line items never change revenue.
C4_RevenueIsTotalAmounts == SumRevenue(sellerStats, 1) = paid

\* two records read, one of a known seller and one of a stranger, and an item
\* folded after revenue was accumulated
C4_Witness ==
    /\ r = 2
    /\ StrangerId \in referenced
    /\ paid.v > 0
    /\ revenueCalls > 0

\* C5: after the sort the sellers, and the report's entries, are in descending
\* order of accumulated profit, and sellers of equal profit are in the order of
\* data.sellers.
C5_SortedByProfit ==
    /\ pc \in {"rank", "done"} =>
          \A i, j \in 1..Len(sellerStats) : i < j =>
              /\ sellerStats[i].profit.v >= sellerStats[j].profit.v
              /\ sellerStats[i].profit = sellerStats[j].profit =>
                    SellerPos(sellerStats[i].id) < SellerPos(sellerStats[j].id)
    /\ report.returned =>
          /\ \A i \in 1..Len(report.entries) :
                report.entries[i].seller_id = String(sellerStats[i].id)
          /\ \A i \in 1..(Len(report.entries) - 1) :
                report.entries[i].profit.v >= report.entries[i + 1].profit.v

\* a report whose first entry is the second seller of data.sellers
C5_Witness ==
    /\ report.returned
    /\ Len(report.entries) = 2
    /\ report.entries[1].seller_id = String(data.sellers.list[2].id)
    /\ report.entries[1].profit.v > report.entries[2].profit.v

SoldQuantity(sold, sku) ==
    IF Created(sold, sku) = 0 THEN Zero ELSE sold[Created(sold, sku)].quantity

Unacceptable ==
    \/ ~data.present
    \/ data.sellers.kind # "array" \/ data.sellers.list = <<>>
    \/ data.products.kind # "array" \/ data.products.list = <<>>
    \/ data.purchase_records # "array"
    \/ options.kind # "object"
    \/ options.calculateRevenue # "function"
    \/ options.calculateBonus # "function"

Untouched ==
    /\ sellerStats = <<>>
    /\ r = 0
    /\ revenueCalls = 0
    /\ bonusCalls = 0
    /\ ~report.returned

\* C8: when a collection of data is missing, not an array or empty, or options is
\* missing or not an object, or a strategy is absent or not a function, an error is
\* raised before any processing: no SellerStat is built, no strategy is invoked and
\* nothing is returned.  A report, when there is one, is the full report.
C8_FailsFast ==
    /\ Unacceptable => pc \in {"start", "error"} /\ Untouched
    /\ (Unacceptable /\ pc # "start") => error # ""
    /\ pc = "error" => error # "" /\ Untouched
    /\ report.returned =>
          /\ pc = "done"
          /\ error = ""
          /\ Len(report.entries) = Len(data.sellers.list)
          /\ bonusCalls = Len(data.sellers.list)

\* rejected at the last check: everything is in order but calculateBonus, which is
\* not a function
C8_Witness ==
    /\ pc = "error"
    /\ data.present
    /\ data.sellers.kind = "array" /\ data.sellers.list # <<>>
    /\ data.products.kind = "array" /\ data.products.list # <<>>
    /\ data.purchase_records = "array"
    /\ options.kind = "object"
    /\ options.calculateRevenue = "function"
    /\ options.calculateBonus = "notFunction"

ReadsRecord == r' = r + 1

ReadsItem == itemsRead' = itemsRead + 1

OthersUnchanged(at) ==
    /\ Len(sellerStats') = Len(sellerStats)
    /\ \A i \in 1..Len(sellerStats) : i # at => sellerStats'[i] = sellerStats[i]

====
